---- MODULE Spec2Model ----
(***************************************************************************)
(* A model of python/paddle/fluid/dygraph/dygraph_to_static/function_spec.py *)
(*                                                                         *)
(* FunctionSpec wraps a function: it reconciles call arguments with the    *)
(* declared signature (unified_args_and_kwargs), derives a nested          *)
(* structure of InputSpec for the arguments (args_to_input_spec, with      *)
(* convert_to_input_spec when an input_spec was declared) and creates the  *)
(* feed variables of a program (to_static_inputs_with_spec).               *)
(*                                                                         *)
(* Python values are records tagged by "kind":                             *)
(*   none, str, int, class, VarBase, ndarray, InputSpec, Variable,         *)
(*   list, tuple (field items: a sequence), dict (fields keys: the keys    *)
(*   in iteration order, map: key -> value), and error (a raised           *)
(*   exception: its Python type exc and the error kind what).              *)
(***************************************************************************)
EXTENDS Integers, Sequences, FiniteSets, TLC

VARIABLES
    pc,              \* "new" | "ready" | "failed": the FunctionSpec's construction
    op,              \* the last method that ran on the FunctionSpec
    function,        \* the decorated function: its declared names and defaults
    spec_arg,        \* the input_spec argument of __init__
    init_error,      \* what __init__ raised, or None
    arg_names,       \* self._arg_names
    default_kwargs,  \* self._default_kwargs
    input_spec,      \* self._input_spec
    flat_input_spec, \* self._flat_input_spec
    call_args,       \* the args of the last unified_args_and_kwargs call
    call_kwargs,     \* the caller's kwargs dict as it was when that call started
    kwargs,          \* the caller's kwargs dict now (the call mutates it in place)
    bound,           \* what unified_args_and_kwargs returned (the args tuple) or raised
    input_with_spec, \* what args_to_input_spec returned or raised
    static_inputs,   \* what to_static_inputs_with_spec returned
    block,           \* main_program.global_block(): the variables created in it
    cv_pc,           \* "idle" | "called" | "returned": a direct convert_to_input_spec call
    cv_inputs,       \* its inputs argument
    cv_spec,         \* its input_spec argument
    cv_out           \* what it returned or raised

vars == <<pc, op, function, spec_arg, init_error, arg_names, default_kwargs,
          input_spec, flat_input_spec, call_args, call_kwargs, kwargs, bound,
          input_with_spec, static_inputs, block, cv_pc, cv_inputs, cv_spec, cv_out>>

fs_vars == <<pc, op, function, spec_arg, init_error, arg_names, default_kwargs,
             input_spec, flat_input_spec, call_args, call_kwargs, kwargs, bound,
             input_with_spec, static_inputs, block>>

cv_vars == <<cv_pc, cv_inputs, cv_spec, cv_out>>

----------------------------------------------------------------------------
(* Bounds of the model *)

\* the most parameters a decorated function declares
MaxParams == 3
\* the most elements of a spec sequence handed to convert_to_input_spec
MaxSpecLen == 2
\* the most elements of an inputs sequence handed to convert_to_input_spec
MaxLen == 3

----------------------------------------------------------------------------
(* Python values *)

None == [kind |-> "none"]

PyStr(s) == [kind |-> "str", s |-> s]

PyInt(v) == [kind |-> "int", v |-> v]

Class(id) == [kind |-> "class", id |-> id]

VarBase(name, shape, dtype) ==
    [kind |-> "VarBase", name |-> PyStr(name), shape |-> shape, dtype |-> dtype]

NdArray(shape, dtype) == [kind |-> "ndarray", shape |-> shape, dtype |-> dtype]

InputSpec(shape, dtype, name) ==
    [kind |-> "InputSpec", shape |-> shape, dtype |-> dtype, name |-> name]

List(items) == [kind |-> "list", items |-> items]

Tuple(items) == [kind |-> "tuple", items |-> items]

Dict(keys, map) == [kind |-> "dict", keys |-> keys, map |-> map]

Error(exc, what) == [kind |-> "error", exc |-> exc, what |-> what]

IsError(v) == v.kind = "error"

IsNone(v) == v.kind = "none"

\* isinstance(v, (tuple, list))
IsTupleOrList(v) == v.kind \in {"tuple", "list"}

\* isinstance(v, paddle.static.InputSpec)
IsInputSpec(v) == v.kind = "InputSpec"

\* inspect.isclass(v)
isclass(v) == v.kind = "class"

\* Python's truth value of v, as `if v`, `v or w` take it
Truthy(v) ==
    CASE v.kind = "none" -> FALSE
      [] v.kind = "str" -> v.s # ""
      [] v.kind = "int" -> v.v # 0
      [] v.kind \in {"list", "tuple"} -> Len(v.items) > 0
      [] v.kind = "dict" -> Len(v.keys) > 0
      [] OTHER -> TRUE

\* len(v) of a container
PyLen(v) == IF v.kind = "dict" THEN Len(v.keys) ELSE Len(v.items)

\* the keys of a dict as a set
KeySet(d) == {d.keys[i] : i \in 1..Len(d.keys)}

----------------------------------------------------------------------------
(* paddle.fluid.layers.utils: flatten and pack_sequence_as, the structural *)
(* walker over list, tuple and dict; a dict is walked in sorted key order. *)

\* every dict key of the model, in sorted order
KeyOrder == <<"a", "b">>

\* utils.is_sequence
is_sequence(v) == v.kind \in {"list", "tuple", "dict"}

\* utils._sorted: the keys of a dict, sorted
sorted_keys(d) == SelectSeq(KeyOrder, LAMBDA k : k \in KeySet(d))

\* utils._yield_value: the children of a container, a dict's by sorted key
yield_value(nest) ==
    IF nest.kind = "dict"
    THEN [i \in 1..Len(sorted_keys(nest)) |-> nest.map[sorted_keys(nest)[i]]]
    ELSE nest.items

RECURSIVE flatten(_), yield_flat_nest(_)

\* utils.flatten: the leaves of a nested structure, in order
flatten(nest) ==
    IF is_sequence(nest) THEN yield_flat_nest(yield_value(nest)) ELSE <<nest>>

\* utils._yield_flat_nest over the children seq
yield_flat_nest(seq) ==
    IF seq = <<>> THEN <<>> ELSE flatten(Head(seq)) \o yield_flat_nest(Tail(seq))

\* utils._sequence_like: a container of instance's type (and keys) holding args
sequence_like(instance, args) ==
    IF instance.kind = "dict"
    THEN Dict(instance.keys,
              [k \in KeySet(instance) |->
                  args[CHOOSE i \in 1..Len(sorted_keys(instance)) :
                           sorted_keys(instance)[i] = k]])
    ELSE [kind |-> instance.kind, items |-> args]

RECURSIVE pack_sequence_as(_, _), packed_nest(_, _)

\* utils.pack_sequence_as: structure with its leaves replaced by flat_sequence
pack_sequence_as(structure, flat_sequence) ==
    IF ~is_sequence(structure)
    THEN IF Len(flat_sequence) # 1
         THEN Error("ValueError", "StructureHadOneElement")
         ELSE flat_sequence[1]
    ELSE IF Len(flatten(structure)) # Len(flat_sequence)
         THEN Error("ValueError", "CouldNotPack")
         ELSE sequence_like(structure,
                            packed_nest(yield_value(structure), flat_sequence))

\* utils._packed_nest_with_indices over the children seq
packed_nest(seq, flat) ==
    IF seq = <<>> THEN <<>>
    ELSE LET n == Len(flatten(Head(seq)))
         IN  <<pack_sequence_as(Head(seq), SubSeq(flat, 1, n))>>
                 \o packed_nest(Tail(seq), SubSeq(flat, n + 1, Len(flat)))

\* paddle.static.InputSpec.from_numpy: shape and dtype of the array, no name
from_numpy(ndarray) == InputSpec(ndarray.shape, ndarray.dtype, None)

\* paddle.static.InputSpec.from_tensor: shape, dtype and name of the tensor
from_tensor(tensor) == InputSpec(tensor.shape, tensor.dtype, tensor.name)

\* Block.create_var: a new variable, inserted into the block
create_var(blk, name, shape, dtype, is_data, need_check_feed) ==
    LET v == [kind |-> "Variable", name |-> name, shape |-> shape, dtype |-> dtype,
              is_data |-> is_data, need_check_feed |-> need_check_feed]
    IN  [var |-> v, block |-> Append(blk, v)]

\* the first exception raised while computing seq in order, or None
FirstError(seq) ==
    IF \E i \in 1..Len(seq) : IsError(seq[i])
    THEN seq[CHOOSE i \in 1..Len(seq) :
                 IsError(seq[i]) /\ \A j \in 1..(i - 1) : ~IsError(seq[j])]
    ELSE None

----------------------------------------------------------------------------
(* convert_to_input_spec *)

\* check_type_and_len: the exception it raises, or None
check_type_and_len(input, spec, check_length) ==
    IF input.kind # spec.kind
    THEN Error("TypeError", "StructureTypeMismatch")
    ELSE IF check_length /\ PyLen(input) < PyLen(spec)
         THEN Error("ValueError", "StructureLengthMismatch")
         ELSE None

\* a variant of rest_inputs that forgets the inputs the spec does not cover
rest_inputs_dropped(inputs, spec) == <<>>

\* `inputs[len(input_spec):]`, which the result is extended with
rest_inputs(inputs, spec) ==
    SubSeq(inputs.items, Len(spec.items) + 1, Len(inputs.items))

RECURSIVE convert_to_input_spec(_, _)

convert_to_input_spec(inputs, spec) ==
    IF IsTupleOrList(spec)
    THEN LET chk == check_type_and_len(inputs, spec, TRUE)
         IN  IF IsError(chk) THEN chk
             ELSE LET out == [i \in 1..Len(spec.items) |->
                                 convert_to_input_spec(inputs.items[i], spec.items[i])]
                  IN  IF IsError(FirstError(out)) THEN FirstError(out)
                      ELSE List(out \o rest_inputs(inputs, spec))
    ELSE IF spec.kind = "dict"
    THEN LET chk == check_type_and_len(inputs, spec, TRUE)
         IN  IF IsError(chk) THEN chk
             ELSE LET out == [i \in 1..Len(inputs.keys) |->
                                 IF inputs.keys[i] \in KeySet(spec)
                                 THEN convert_to_input_spec(inputs.map[inputs.keys[i]],
                                                            spec.map[inputs.keys[i]])
                                 ELSE inputs.map[inputs.keys[i]]]
                  IN  IF IsError(FirstError(out)) THEN FirstError(out)
                      ELSE Dict(inputs.keys,
                                [k \in KeySet(inputs) |->
                                    out[CHOOSE i \in 1..Len(inputs.keys) :
                                            inputs.keys[i] = k]])
    ELSE IF IsInputSpec(spec)
    THEN spec
    \* `"...".type_name(input_spec)`: str has no attribute type_name
    ELSE Error("AttributeError", "StrHasNoAttributeTypeName")

----------------------------------------------------------------------------
(* FunctionSpec *)

\* utils.parse_arg_and_kwargs: the declared names and the name -> default map
parse_arg_and_kwargs(fn) == [arg_names |-> fn.names, default_kwargs |-> fn.defaults]

\* a variant of _verify_input_spec that does not look at the leaves
verify_container_only(spec) ==
    IF ~IsTupleOrList(spec)
    THEN Error("TypeError", "InvalidSpecContainer")
    ELSE Tuple(spec.items)

\* FunctionSpec._verify_input_spec: the spec as a tuple, or the exception
verify_input_spec(spec) ==
    IF ~IsTupleOrList(spec)
    THEN Error("TypeError", "InvalidSpecContainer")
    ELSE LET as_tuple == Tuple(spec.items)
         IN  IF \E i \in 1..Len(flatten(as_tuple)) : ~IsInputSpec(flatten(as_tuple)[i])
             THEN Error("ValueError", "InvalidSpecLeaf")
             ELSE as_tuple

\* a variant of DelKey that leaves the entry in the dict
KeepKey(kw, name) == kw

\* kw without its entry for name: `del kwargs[arg_name]`
DelKey(kw, name) == [k \in (DOMAIN kw) \ {name} |-> kw[k]]

RECURSIVE unify_loop(_, _, _, _, _)

\* the loop of unified_args_and_kwargs from index i (the i-th name, from 1) on:
\* args is the local list, kw the caller's dict; value is the returned tuple
\* or the exception, kwargs the caller's dict when the call ends
unify_loop(i, names, defaults, args, kw) ==
    IF i > Len(names)
    THEN [value |-> Tuple(args), kwargs |-> kw]
    ELSE LET arg_name == names[i]
         IN  IF arg_name \in DOMAIN kw
             THEN unify_loop(i + 1, names, defaults, Append(args, kw[arg_name]),
                             DelKey(kw, arg_name))
             ELSE IF arg_name \notin DOMAIN defaults
                  THEN [value |-> Error("ValueError", "MissingArgument"), kwargs |-> kw]
                  ELSE unify_loop(i + 1, names, defaults,
                                  Append(args, defaults[arg_name]), kw)

\* a variant of first_arg_is_class that looks at the first excess argument
excess_arg_is_class(names, args) == isclass(args.items[Len(names) + 1])

\* `args and inspect.isclass(args[0])`
first_arg_is_class(names, args) == Truthy(args) /\ isclass(args.items[1])

\* FunctionSpec.unified_args_and_kwargs(args, kwargs) of a FunctionSpec with
\* _arg_names = names and _default_kwargs = defaults
unified_args_and_kwargs(names, defaults, args, kw) ==
    IF Len(names) < Len(args.items)
    THEN IF first_arg_is_class(names, args)
         THEN [value |-> Error("NotImplementedError", "AmbiguousDecoratorUsage"),
               kwargs |-> kw]
         ELSE [value |-> Error("ValueError", "TooManyArguments"), kwargs |-> kw]
    ELSE unify_loop(Len(args.items) + 1, names, defaults, args.items, kw)

\* a leaf of args when no input_spec was declared
leaf_to_input_spec(input_var) ==
    IF input_var.kind = "ndarray" THEN from_numpy(input_var)
    ELSE IF input_var.kind = "VarBase" THEN from_tensor(input_var)
    ELSE input_var

\* a variant of args_to_input_spec that checks the length before the kwargs
args_to_input_spec_length_first(self_input_spec, args, kw) ==
    IF ~IsNone(self_input_spec)
    THEN IF PyLen(args) < PyLen(self_input_spec)
         THEN Error("ValueError", "InsufficientArguments")
         ELSE IF DOMAIN kw # {}
              THEN Error("ValueError", "UnsupportedKeywords")
              ELSE convert_to_input_spec(args, self_input_spec)
    ELSE pack_sequence_as(args,
             [i \in 1..Len(flatten(args)) |-> leaf_to_input_spec(flatten(args)[i])])

\* FunctionSpec.args_to_input_spec(args, kwargs) of a FunctionSpec with
\* _input_spec = self_input_spec
args_to_input_spec(self_input_spec, args, kw) ==
    IF ~IsNone(self_input_spec)
    THEN IF DOMAIN kw # {}
         THEN Error("ValueError", "UnsupportedKeywords")
         ELSE IF PyLen(args) < PyLen(self_input_spec)
              THEN Error("ValueError", "InsufficientArguments")
              ELSE convert_to_input_spec(args, self_input_spec)
    ELSE pack_sequence_as(args,
             [i \in 1..Len(flatten(args)) |-> leaf_to_input_spec(flatten(args)[i])])

\* a variant of feed_name that always generates the name
feed_name_generated(var_spec, i) == PyStr("feed_" \o ToString(i))

\* `var_spec.name or "feed_%s" % i`
feed_name(var_spec, i) ==
    IF Truthy(var_spec.name) THEN var_spec.name ELSE PyStr("feed_" \o ToString(i))

RECURSIVE feed_loop(_, _, _, _)

\* the loop of to_static_inputs_with_spec from enumerate index i (from 0) on
feed_loop(flat, i, inputs, blk) ==
    IF i >= Len(flat)
    THEN [inputs |-> inputs, block |-> blk]
    ELSE LET var_spec == flat[i + 1]
         IN  IF IsInputSpec(var_spec)
             THEN LET made == create_var(blk, feed_name(var_spec, i),
                                         var_spec.shape, var_spec.dtype, TRUE, FALSE)
                  IN  feed_loop(flat, i + 1, Append(inputs, made.var), made.block)
             ELSE feed_loop(flat, i + 1, Append(inputs, var_spec), blk)

\* FunctionSpec.to_static_inputs_with_spec(input_with_spec, main_program):
\* ret is what it returns, block the program's global block afterwards
to_static_inputs_with_spec(iws, blk) ==
    LET fed == feed_loop(flatten(iws), 0, <<>>, blk)
    IN  [ret |-> pack_sequence_as(iws, fed.inputs), block |-> fed.block]

----------------------------------------------------------------------------
(* The values the model draws its inputs from *)

T1 == VarBase("t1", <<2, 4>>, "float32")

A1 == NdArray(<<3>>, "int64")

C23 == PyInt(23)

K1 == Class("Net")

\* InputSpec(shape=[None, 4], dtype='float32'), unnamed
D1 == InputSpec(<<-1, 4>>, "float32", None)

\* InputSpec(shape=[None], dtype='int64', name='x')
D2 == InputSpec(<<-1>>, "int64", PyStr("x"))

\* InputSpec(shape=[1], dtype='float32', name='')
D3 == InputSpec(<<1>>, "float32", PyStr(""))

DictA(va) == Dict(<<"a">>, [k \in {"a"} |-> va])

DictB(vb) == Dict(<<"b">>, [k \in {"b"} |-> vb])

DictAB(va, vb) == Dict(<<"a", "b">>, [k \in {"a", "b"} |-> IF k = "a" THEN va ELSE vb])

\* the same mapping built in the other order: {"b": vb, "a": va}
DictBA(vb, va) == Dict(<<"b", "a">>, [k \in {"a", "b"} |-> IF k = "a" THEN va ELSE vb])

EmptyDict == Dict(<<>>, [k \in {} |-> None])

\* the sequences over S of length at most n
SeqUpTo(S, n) == UNION {[1..m -> S] : m \in 0..n}

\* parameter names, in declaration order: def foo(x, a, b, c, d)
ParamNames == <<"x", "a", "b", "c", "d">>

\* the default of the i-th parameter, as in `def foo(x, a=1, b=2)`
DefaultOf(i) == PyInt(i - 1)

\* the index of a parameter name
ParamIndex(name) == CHOOSE i \in 1..Len(ParamNames) : ParamNames[i] = name

\* a function declaring n parameters, the last d of them with defaults
Function(n, d) ==
    [names |-> SubSeq(ParamNames, 1, n),
     defaults |-> [k \in {ParamNames[i] : i \in (n - d + 1)..n} |->
                      DefaultOf(ParamIndex(k))]]

Functions == UNION {{Function(n, d) : d \in 0..n} : n \in 0..MaxParams}

\* the input_spec arguments FunctionSpec is constructed with
SpecArgs ==
    { None,
      List(<<>>), List(<<D1>>), Tuple(<<D1>>), List(<<D1, D2>>), Tuple(<<D3, D1>>),
      List(<<List(<<D1, D3>>)>>), List(<<DictA(D1)>>), Tuple(<<Tuple(<<D1, D2>>)>>),
      D1, DictA(D1), List(<<C23>>), Tuple(<<D1, List(<<T1>>)>>), List(<<DictA(None)>>) }

\* positional arguments: every tuple of a plain value and a class, and some
\* tuples with tensors, arrays and nested containers
ArgLeaves == {C23, K1}

TensorArgs ==
    { <<T1>>, <<T1, C23>>, <<T1, A1>>, <<C23, A1, T1>>, <<A1>>,
      <<List(<<T1, C23, A1>>)>>, <<DictAB(T1, C23)>>, <<Tuple(<<A1, T1>>), T1>>,
      <<DictBA(A1, List(<<T1>>))>> }

CallArgs == {Tuple(a) : a \in SeqUpTo(ArgLeaves, MaxParams + 1) \cup TensorArgs}

\* keyword arguments: declared names and one undeclared name, each bound to 9
KwNames == {ParamNames[i] : i \in 1..MaxParams} \cup {"z"}

CallKwargs == {[k \in ks |-> PyInt(9)] : ks \in SUBSET KwNames}

NoKwargs == [k \in {} |-> None]

----------------------------------------------------------------------------
(* The life of a FunctionSpec: construction, then any number of calls      *)
(* unified_args_and_kwargs -> args_to_input_spec -> to_static_inputs_with_spec, *)
(* as program_translator makes them.                                        *)

Init ==
    /\ pc = "new"
    /\ op = "none"
    /\ function \in Functions
    /\ spec_arg \in SpecArgs
    /\ init_error = None
    /\ arg_names = None
    /\ default_kwargs = None
    /\ input_spec = None
    /\ flat_input_spec = None
    /\ call_args = None
    /\ call_kwargs = NoKwargs
    /\ kwargs = NoKwargs
    /\ bound = None
    /\ input_with_spec = None
    /\ static_inputs = None
    /\ block = <<>>
    /\ cv_pc = "idle"
    /\ cv_inputs = None
    /\ cv_spec = None
    /\ cv_out = None

\* FunctionSpec.__init__(function, input_spec)
New ==
    /\ pc = "new"
    /\ LET verified == IF IsNone(spec_arg) THEN None ELSE verify_input_spec(spec_arg)
           parsed == parse_arg_and_kwargs(function)
       IN  IF IsError(verified)
           THEN /\ pc' = "failed"
                /\ init_error' = verified
                /\ UNCHANGED <<input_spec, flat_input_spec, arg_names, default_kwargs>>
           ELSE /\ pc' = "ready"
                /\ input_spec' = verified
                /\ flat_input_spec' = IF IsNone(spec_arg) THEN None
                                      ELSE List(flatten(verified))
                /\ arg_names' = parsed.arg_names
                /\ default_kwargs' = parsed.default_kwargs
                /\ UNCHANGED init_error
    /\ op' = "__init__"
    /\ UNCHANGED <<function, spec_arg, call_args, call_kwargs, kwargs, bound,
                   input_with_spec, static_inputs, block>>
    /\ UNCHANGED cv_vars

\* self.unified_args_and_kwargs(args, kw)
Unified ==
    /\ pc = "ready"
    /\ op \in {"__init__", "none"}
    /\ \E args \in CallArgs, kw \in CallKwargs :
          LET r == unified_args_and_kwargs(arg_names, default_kwargs, args, kw)
          IN  /\ call_args' = args
              /\ call_kwargs' = kw
              /\ kwargs' = r.kwargs
              /\ bound' = r.value
    /\ op' = "unified_args_and_kwargs"
    /\ input_with_spec' = None
    /\ static_inputs' = None
    /\ block' = <<>>
    /\ UNCHANGED <<pc, function, spec_arg, init_error, arg_names, default_kwargs,
                   input_spec, flat_input_spec>>
    /\ UNCHANGED cv_vars

\* self.args_to_input_spec(args, kwargs) on what unified_args_and_kwargs returned
ArgsToInputSpec ==
    /\ pc = "ready"
    /\ op = "unified_args_and_kwargs"
    /\ ~IsError(bound)
    /\ input_with_spec' = args_to_input_spec(input_spec, bound, kwargs)
    /\ op' = "args_to_input_spec"
    /\ UNCHANGED <<pc, function, spec_arg, init_error, arg_names, default_kwargs,
                   input_spec, flat_input_spec, call_args, call_kwargs, kwargs, bound,
                   static_inputs, block>>
    /\ UNCHANGED cv_vars

\* self.to_static_inputs_with_spec(input_with_spec, main_program) with a new
\* main_program, whose global block is empty
ToStaticInputs ==
    /\ pc = "ready"
    /\ op = "args_to_input_spec"
    /\ ~IsError(input_with_spec)
    /\ LET r == to_static_inputs_with_spec(input_with_spec, <<>>)
       IN  /\ static_inputs' = r.ret
           /\ block' = r.block
    /\ op' = "to_static_inputs_with_spec"
    /\ UNCHANGED <<pc, function, spec_arg, init_error, arg_names, default_kwargs,
                   input_spec, flat_input_spec, call_args, call_kwargs, kwargs, bound,
                   input_with_spec>>
    /\ UNCHANGED cv_vars

\* The invocation ends, by a return or by the exception raised: the values of
\* the call are dropped, the FunctionSpec is kept for the next invocation
EndCall ==
    /\ pc = "ready"
    /\ op \in {"unified_args_and_kwargs", "args_to_input_spec",
               "to_static_inputs_with_spec"}
    /\ op' = "none"
    /\ call_args' = None
    /\ call_kwargs' = NoKwargs
    /\ kwargs' = NoKwargs
    /\ bound' = None
    /\ input_with_spec' = None
    /\ static_inputs' = None
    /\ block' = <<>>
    /\ UNCHANGED <<pc, function, spec_arg, init_error, arg_names, default_kwargs,
                   input_spec, flat_input_spec>>
    /\ UNCHANGED cv_vars

Next == New \/ Unified \/ ArgsToInputSpec \/ ToStaticInputs \/ EndCall

Spec == Init /\ [][Next]_vars

----------------------------------------------------------------------------
(* A call convert_to_input_spec(inputs, input_spec) on its own *)

\* elements of a spec sequence: descriptors, a leaf that is no InputSpec, and
\* nested containers
SpecAtoms == {D1, D2, C23, List(<<D1>>), DictA(D2)}

ConvSpecs ==
    {List(q) : q \in SeqUpTo(SpecAtoms, MaxSpecLen)}
        \cup {Tuple(q) : q \in SeqUpTo(SpecAtoms, MaxSpecLen)}
        \cup { DictA(D1), DictB(D2), DictAB(D1, D2), DictA(C23), DictA(List(<<D1, D2>>)),
               DictAB(C23, List(<<C23>>)), EmptyDict, D1, C23, None }

\* elements of an inputs sequence
InputAtoms == {T1, C23, List(<<T1, A1>>), DictAB(T1, C23)}

ConvInputs ==
    {List(q) : q \in SeqUpTo(InputAtoms, MaxLen)}
        \cup {Tuple(q) : q \in SeqUpTo(InputAtoms, MaxLen)}
        \cup { DictA(T1), DictB(T1), DictAB(T1, C23), DictBA(T1, C23),
               DictA(List(<<T1, A1, C23>>)), DictBA(T1, List(<<T1>>)), EmptyDict, T1 }

InitConvert ==
    /\ cv_pc = "called"
    /\ cv_inputs \in ConvInputs
    /\ cv_spec \in ConvSpecs
    /\ cv_out = None
    /\ pc = "none"
    /\ op = "none"
    /\ function = None
    /\ spec_arg = None
    /\ init_error = None
    /\ arg_names = None
    /\ default_kwargs = None
    /\ input_spec = None
    /\ flat_input_spec = None
    /\ call_args = None
    /\ call_kwargs = NoKwargs
    /\ kwargs = NoKwargs
    /\ bound = None
    /\ input_with_spec = None
    /\ static_inputs = None
    /\ block = <<>>

\* convert_to_input_spec(inputs, input_spec) returns or raises
Convert ==
    /\ cv_pc = "called"
    /\ cv_out' = convert_to_input_spec(cv_inputs, cv_spec)
    /\ cv_pc' = "returned"
    /\ UNCHANGED <<cv_inputs, cv_spec>>
    /\ UNCHANGED fs_vars

NextConvert == Convert

SpecConvert == InitConvert /\ [][NextConvert]_vars

----------------------------------------------------------------------------
(* Properties *)

\* a call of unified_args_and_kwargs has been made and its values are at hand
Called ==
    /\ pc = "ready"
    /\ op \in {"unified_args_and_kwargs", "args_to_input_spec",
               "to_static_inputs_with_spec"}

\* args_to_input_spec has run in this invocation
Resolved ==
    /\ pc = "ready"
    /\ op \in {"args_to_input_spec", "to_static_inputs_with_spec"}

\* the indices of the declared names the call gave no positional argument for
Unsupplied == (Len(call_args.items) + 1)..Len(arg_names)

RECURSIVE SameNesting(_, _)

\* r has the nesting of a: the same container type, length and keys at every level
SameNesting(a, r) ==
    IF a.kind \in {"list", "tuple"}
    THEN /\ r.kind = a.kind
         /\ Len(r.items) = Len(a.items)
         /\ \A i \in 1..Len(a.items) : SameNesting(a.items[i], r.items[i])
    ELSE IF a.kind = "dict"
    THEN /\ r.kind = "dict"
         /\ KeySet(r) = KeySet(a)
         /\ \A k \in KeySet(a) : SameNesting(a.map[k], r.map[k])
    ELSE ~is_sequence(r)

RECURSIVE AllLeavesInputSpec(_)

\* every leaf of the nested structure v is an InputSpec
AllLeavesInputSpec(v) ==
    IF v.kind \in {"list", "tuple"}
    THEN \A i \in 1..Len(v.items) : AllLeavesInputSpec(v.items[i])
    ELSE IF v.kind = "dict"
    THEN \A k \in KeySet(v) : AllLeavesInputSpec(v.map[k])
    ELSE IsInputSpec(v)

\* C1: with no more positional arguments than declared names,
\* unified_args_and_kwargs succeeds iff every name without a positional argument
\* is a keyword or has a default; it then returns a tuple of len(names) entries,
\* the positional arguments first, then for each further name its keyword value
\* if given and its default otherwise, and leaves in kwargs exactly the keywords
\* it did not consume, none of them a name it bound.
C1_UnifiedBindsEveryName ==
    (Called /\ Len(call_args.items) <= Len(arg_names)) =>
        LET N == arg_names
            A == call_args.items
            K == call_kwargs
            D == default_kwargs
        IN  /\ (~IsError(bound)) <=>
                   (\A i \in Unsupplied : N[i] \in DOMAIN K \/ N[i] \in DOMAIN D)
            /\ (~IsError(bound)) =>
                   /\ bound.kind = "tuple"
                   /\ Len(bound.items) = Len(N)
                   /\ \A i \in 1..Len(A) : bound.items[i] = A[i]
                   /\ \A i \in Unsupplied :
                          bound.items[i] = IF N[i] \in DOMAIN K THEN K[N[i]] ELSE D[N[i]]
                   /\ kwargs = [k \in (DOMAIN K) \ {N[i] : i \in Unsupplied} |-> K[k]]
                   /\ \A i \in Unsupplied : N[i] \notin DOMAIN kwargs

\* foo(23, b=9) with def foo(x, a=1, b=2): one positional argument, a default
\* used, a keyword that wins over its default, an undeclared keyword left over
C1_Witness ==
    /\ Called
    /\ op = "unified_args_and_kwargs"
    /\ arg_names = <<"x", "a", "b">>
    /\ DOMAIN default_kwargs = {"a", "b"}
    /\ call_args = Tuple(<<C23>>)
    /\ DOMAIN call_kwargs = {"b", "z"}
    /\ bound = Tuple(<<C23, PyInt(1), PyInt(9)>>)
    /\ DOMAIN kwargs = {"z"}

\* C2 (as amended): a call with more positional arguments than declared names
\* always fails; it fails with AmbiguousDecoratorUsage (NotImplementedError) iff
\* the FIRST positional argument, call_args[0], is a class, and with
\* TooManyArguments (ValueError) otherwise.
C2_ExcessFailsByFirstArg ==
    (Called /\ Len(call_args.items) > Len(arg_names)) =>
        /\ IsError(bound)
        /\ (bound = Error("NotImplementedError", "AmbiguousDecoratorUsage"))
               <=> isclass(call_args.items[1])
        /\ (~isclass(call_args.items[1]))
               => bound = Error("ValueError", "TooManyArguments")

\* an excess call whose first argument is a class and whose first excess
\* argument is not
C2_Witness ==
    /\ Called
    /\ op = "unified_args_and_kwargs"
    /\ Len(arg_names) >= 1
    /\ Len(call_args.items) > Len(arg_names)
    /\ isclass(call_args.items[1])
    /\ ~isclass(call_args.items[Len(arg_names) + 1])
    /\ bound = Error("NotImplementedError", "AmbiguousDecoratorUsage")

\* C2 as stated: the failure is AmbiguousDecoratorUsage iff the first EXCESS
\* positional argument, call_args[len(argument_names)], is a class, and
\* TooManyArguments otherwise.
C2_Original ==
    (Called /\ Len(call_args.items) > Len(arg_names)) =>
        /\ IsError(bound)
        /\ (bound = Error("NotImplementedError", "AmbiguousDecoratorUsage"))
               <=> isclass(call_args.items[Len(arg_names) + 1])
        /\ (~isclass(call_args.items[Len(arg_names) + 1]))
               => bound = Error("ValueError", "TooManyArguments")

\* C10: when unified_args_and_kwargs fails, the caller's kwargs are as they were
\* before the call.
C10_FailureKeepsKwargs ==
    (Called /\ op = "unified_args_and_kwargs" /\ IsError(bound)) => kwargs = call_kwargs

\* C3: for a list or tuple spec and inputs of the same type with
\* len(spec) <= len(inputs), convert_to_input_spec (unless a merge below it
\* raises, which it passes on) returns a sequence of len(inputs) elements:
\* element i < len(spec) is the merge of inputs[i] with spec[i], the InputSpec
\* itself where spec[i] is one, and the rest are inputs[len(spec):] unchanged.
C3_SequenceMerge ==
    (/\ cv_pc = "returned"
     /\ IsTupleOrList(cv_spec)
     /\ cv_inputs.kind = cv_spec.kind
     /\ Len(cv_spec.items) <= Len(cv_inputs.items)) =>
        LET n == Len(cv_spec.items)
            merged == [i \in 1..n |->
                          convert_to_input_spec(cv_inputs.items[i], cv_spec.items[i])]
        IN  IF \E i \in 1..n : IsError(merged[i])
            THEN IsError(cv_out)
            ELSE /\ IsTupleOrList(cv_out)
                 /\ Len(cv_out.items) = Len(cv_inputs.items)
                 /\ \A i \in 1..n :
                        /\ cv_out.items[i] = merged[i]
                        /\ IsInputSpec(cv_spec.items[i]) => cv_out.items[i] = cv_spec.items[i]
                 /\ \A i \in (n + 1)..Len(cv_inputs.items) :
                        cv_out.items[i] = cv_inputs.items[i]

\* spec [D1, D2] against inputs [t1, 23, t1] gives [D1, D2, t1]
C3_Witness ==
    /\ cv_pc = "returned"
    /\ cv_spec = List(<<D1, D2>>)
    /\ cv_inputs = List(<<T1, C23, T1>>)
    /\ cv_out = List(<<D1, D2, T1>>)

\* C4: for a dict spec and dict inputs that pass the type and length check,
\* every key of spec is in the result, bound to the merge of inputs[k] with
\* spec[k], and every key of inputs that spec lacks is in the result with its
\* input value: no key of spec is ignored.
C4_EverySpecKeyMerged ==
    (/\ cv_pc = "returned"
     /\ cv_spec.kind = "dict"
     /\ cv_inputs.kind = "dict"
     /\ Len(cv_inputs.keys) >= Len(cv_spec.keys)
     /\ ~IsError(cv_out)) =>
        /\ cv_out.kind = "dict"
        /\ \A k \in KeySet(cv_spec) :
               /\ k \in KeySet(cv_out)
               /\ k \in KeySet(cv_inputs)
               /\ cv_out.map[k] = convert_to_input_spec(cv_inputs.map[k], cv_spec.map[k])
        /\ \A k \in KeySet(cv_inputs) \ KeySet(cv_spec) :
               /\ k \in KeySet(cv_out)
               /\ cv_out.map[k] = cv_inputs.map[k]

RECURSIVE ReachesOtherLeaf(_, _)

\* the walk of convert_to_input_spec over (inputs, spec) arrives, before anything
\* raises, at a spec value that is no list, tuple, dict or InputSpec
ReachesOtherLeaf(inputs, spec) ==
    IF IsTupleOrList(spec)
    THEN /\ ~IsError(check_type_and_len(inputs, spec, TRUE))
         /\ \E i \in 1..Len(spec.items) :
               /\ ReachesOtherLeaf(inputs.items[i], spec.items[i])
               /\ \A j \in 1..(i - 1) :
                      ~IsError(convert_to_input_spec(inputs.items[j], spec.items[j]))
    ELSE IF spec.kind = "dict"
    THEN /\ ~IsError(check_type_and_len(inputs, spec, TRUE))
         /\ \E i \in 1..Len(inputs.keys) :
               /\ inputs.keys[i] \in KeySet(spec)
               /\ ReachesOtherLeaf(inputs.map[inputs.keys[i]], spec.map[inputs.keys[i]])
               /\ \A j \in 1..(i - 1) :
                      inputs.keys[j] \in KeySet(spec) =>
                          ~IsError(convert_to_input_spec(inputs.map[inputs.keys[j]],
                                                         spec.map[inputs.keys[j]]))
    ELSE ~IsInputSpec(spec)

\* C5: when convert_to_input_spec reaches a spec value that is no list, tuple,
\* dict or InputSpec, it fails with the TypeError InvalidSpecLeaf and with no
\* other error.
C5_OtherLeafIsTypeError ==
    (cv_pc = "returned" /\ ReachesOtherLeaf(cv_inputs, cv_spec)) =>
        cv_out = Error("TypeError", "InvalidSpecLeaf")

\* C6: what args_to_input_spec returns has the nesting of its args, with or
\* without a declared input_spec: the same container types, lengths and keys.
C6_SameNestingAsArgs ==
    (Resolved /\ ~IsError(input_with_spec)) => SameNesting(bound, input_with_spec)

\* C7: with a declared input_spec, args_to_input_spec fails with
\* UnsupportedKeywords if kwargs is not empty, else with InsufficientArguments if
\* len(args) < len(input_spec), else it is convert_to_input_spec(args,
\* input_spec); after unified_args_and_kwargs, it fails with UnsupportedKeywords
\* exactly when the call gave a keyword that is not the name of a declared
\* parameter without a positional argument.
C7_KwargsThenLength ==
    (Resolved /\ ~IsNone(input_spec)) =>
        /\ input_with_spec =
               IF DOMAIN kwargs # {}
               THEN Error("ValueError", "UnsupportedKeywords")
               ELSE IF Len(bound.items) < Len(input_spec.items)
                    THEN Error("ValueError", "InsufficientArguments")
                    ELSE convert_to_input_spec(bound, input_spec)
        /\ (input_with_spec = Error("ValueError", "UnsupportedKeywords"))
               <=> (\E k \in DOMAIN call_kwargs :
                        k \notin {arg_names[i] : i \in Unsupplied})

\* def foo(x, a) with input_spec [D1], called foo(t1, a=9): the keyword is
\* bound into args and the spec is merged
C7_Witness ==
    /\ Resolved
    /\ input_spec = Tuple(<<D1>>)
    /\ arg_names = <<"x", "a">>
    /\ call_args = Tuple(<<T1>>)
    /\ DOMAIN call_kwargs = {"a"}
    /\ input_with_spec = List(<<D1, PyInt(9)>>)

\* the placeholder to_static_inputs_with_spec creates for the InputSpec at
\* position i (from 1) of the flattened tree
Placeholder(var_spec, i) ==
    [kind |-> "Variable",
     name |-> IF var_spec.name \in {None, PyStr("")}
              THEN PyStr("feed_" \o ToString(i - 1))
              ELSE var_spec.name,
     shape |-> var_spec.shape, dtype |-> var_spec.dtype,
     is_data |-> TRUE, need_check_feed |-> FALSE]

\* C8: to_static_inputs_with_spec creates in the program's global block one
\* variable for each InputSpec leaf of the flattened tree and none for another
\* leaf; the leaf at flattened position i, every leaf counted, gives a variable
\* named by the spec's name if it has one and "feed_<i>" otherwise, with the
\* spec's shape and dtype; another leaf is returned as it is; the result has
\* the nesting of the input tree.
C8_OnePlaceholderPerInputSpec ==
    (pc = "ready" /\ op = "to_static_inputs_with_spec") =>
        LET flat == flatten(input_with_spec)
            out == flatten(static_inputs)
            specs == {i \in 1..Len(flat) : IsInputSpec(flat[i])}
        IN  /\ Len(out) = Len(flat)
            /\ \A i \in 1..Len(flat) :
                   out[i] = IF i \in specs THEN Placeholder(flat[i], i) ELSE flat[i]
            /\ Len(block) = Cardinality(specs)
            /\ \A i \in specs :
                   block[Cardinality({j \in specs : j <= i})] = Placeholder(flat[i], i)
            /\ SameNesting(input_with_spec, static_inputs)

\* the tree [[spec named "t1", 23, unnamed spec]]: the unnamed spec at flattened
\* position 2, after a constant, gives the variable "feed_2"
C8_Witness ==
    /\ pc = "ready"
    /\ op = "to_static_inputs_with_spec"
    /\ Len(flatten(input_with_spec)) = 3
    /\ ~IsInputSpec(flatten(input_with_spec)[2])
    /\ IsInputSpec(flatten(input_with_spec)[3])
    /\ Len(block) = 2
    /\ block[1].name = PyStr("t1")
    /\ block[2].name = PyStr("feed_2")

\* C9: a FunctionSpec exists only with input_spec None or a list or tuple
\* whose leaves are all InputSpec: construction fails with the TypeError
\* InvalidSpecContainer for another top level and with the ValueError
\* InvalidSpecLeaf for another leaf; and whatever calls were made since,
\* input_spec and flat_input_spec are what construction made of the argument.
C9_SpecFixedAtConstruction ==
    /\ pc = "failed" =>
           /\ ~IsNone(spec_arg)
           /\ IF ~IsTupleOrList(spec_arg)
              THEN init_error = Error("TypeError", "InvalidSpecContainer")
              ELSE /\ ~AllLeavesInputSpec(spec_arg)
                   /\ init_error = Error("ValueError", "InvalidSpecLeaf")
    /\ pc = "ready" =>
           IF IsNone(spec_arg)
           THEN input_spec = None /\ flat_input_spec = None
           ELSE /\ IsTupleOrList(spec_arg)
                /\ AllLeavesInputSpec(spec_arg)
                /\ input_spec = Tuple(spec_arg.items)
                /\ AllLeavesInputSpec(input_spec)
                /\ flat_input_spec = List(flatten(input_spec))

\* a FunctionSpec with a declared nested input_spec, after a whole invocation
C9_Witness ==
    /\ pc = "ready"
    /\ op = "to_static_inputs_with_spec"
    /\ spec_arg = List(<<List(<<D1, D3>>)>>)
    /\ input_spec = Tuple(<<List(<<D1, D3>>)>>)
    /\ flat_input_spec = List(<<D1, D3>>)

====
